---- MODULE Spec2Model ----
(***************************************************************************)
(* Model of reranker.js: the static model cache of ModelLoader             *)
(* (initialize / clearCache / isLoaded / getCachedModels), the instances   *)
(* of NativeEmbeddingReranker that share it (initialize, dispose), and     *)
(* the batched rerank pipeline (rerank / getScores).                       *)
(*                                                                         *)
(* Every action is one synchronous segment of the JavaScript code: it      *)
(* starts where a call or an await resumes and ends at the next await.     *)
(***************************************************************************)
EXTENDS Integers, Sequences, FiniteSets, TLC

\* ------------------------------------------------------------------------
\* Bounds
\* ------------------------------------------------------------------------
MaxCalls == 3       \* initialize() calls issued in one behaviour
MaxDocs == 3        \* longest document list handed to rerank
MaxTopK == 4        \* largest topK option
MaxBatch == 3       \* largest batchSize option
MaxNeg == 2         \* invalid options go down to -MaxNeg
MaxSpin == 2        \* loop iterations followed once the loop variable is below zero
MaxLabels == 3      \* most entries of an id2label map under evaluation
MaxRanked == 4      \* longest ranked list handed to a metric
MaxK == 5           \* largest cutoff k handed to a metric
MaxResults == 3     \* most query results handed to calculateAverageMetrics
MaxAvgRanked == 2   \* longest ranked list inside a query result

\* ------------------------------------------------------------------------
\* Configuration: model keys and the reranker instances constructed on them
\* ------------------------------------------------------------------------
Keys == {"kA", "kB"}
Instances == {"i1", "i2", "i3"}

\* this.model / this.modelName of an instance (set once by the constructor)
instModel(i) == IF i = "i3" THEN "kB" ELSE "kA"

CallIds == 1..MaxCalls
None == 0           \* Map.has(k) = false

VARIABLES
  models,                  \* ModelLoader.#models: key -> id of the load that produced it
  tokenizers,              \* ModelLoader.#tokenizers
  initializationPromises,  \* ModelLoader.#initializationPromises: key -> promise id
  pc,                      \* position of each initialize() call
  callKey,                 \* this.modelName of each initialize() call
  awaited,                 \* the promise an initialize() call awaits
  promiseState,            \* state of the promise created by a call's loading closure
  result,                  \* what the caller of initialize() observes
  loaderCalls,             \* number of from_pretrained model loads started per key
  pendingAtIssue,          \* calls of the same key not yet completed when a call was issued
  clearSeen,               \* a clearCache hit the call's key while the call was pending
  evicted,                 \* key was cleared and no initialize() of it was issued since
  rrPc,                    \* position of the rerank() call
  rrInst,                  \* instance the rerank() call runs on
  rrDocs,                  \* documents argument
  rrTopK,                  \* options.topK
  rrBatch,                 \* options.batchSize
  rrI,                     \* loop variable i (start of the current chunk)
  allResults,              \* allResults accumulated over the batches
  rrOut,                   \* value returned by rerank()
  backendCalls,            \* model(features) calls made by the current rerank()
  preloadPc,               \* position of the preload() call around each initialize()
  evalFn,                  \* pure function under evaluation
  evalIn,                  \* its arguments
  evalOut                  \* its return value

cacheVars == <<models, tokenizers, initializationPromises>>
callVars == <<pc, callKey, awaited, promiseState, result, loaderCalls,
              pendingAtIssue, clearSeen, evicted>>
rrVars == <<rrPc, rrInst, rrDocs, rrTopK, rrBatch, rrI, allResults, rrOut,
            backendCalls>>
evalVars == <<evalFn, evalIn, evalOut>>
restVars == <<preloadPc, evalVars>>
vars == <<cacheVars, callVars, rrVars, restVars>>

\* ------------------------------------------------------------------------
\* Cache queries
\* ------------------------------------------------------------------------
\* ModelLoader.isLoaded()
isLoaded(i) == models[instModel(i)] # None /\ tokenizers[instModel(i)] # None

\* ModelLoader.getCachedModels()
getCachedModels == {k \in Keys : models[k] # None}

Pending(c) == pc[c] \notin {"idle", "done"}
Loading(c) == pc[c] \in {"loadModel", "loadTokenizer"}
Settled(p) == promiseState[p][1] \in {"fulfilled", "rejected"}

\* Outcome a caller observes from a settled promise
OutcomeOf(p) ==
  IF promiseState[p][1] = "fulfilled" THEN <<"ok", "-", 0>>
  ELSE <<"error", promiseState[p][2], p>>

\* ------------------------------------------------------------------------
\* Initial state: empty static maps, no call issued
\* ------------------------------------------------------------------------
InitCache ==
  /\ models = [k \in Keys |-> None]
  /\ tokenizers = [k \in Keys |-> None]
  /\ initializationPromises = [k \in Keys |-> None]

InitCalls ==
  /\ pc = [c \in CallIds |-> "idle"]
  /\ callKey = [c \in CallIds |-> "-"]
  /\ awaited = [c \in CallIds |-> None]
  /\ promiseState = [c \in CallIds |-> <<"none", "-">>]
  /\ result = [c \in CallIds |-> <<"none", "-", 0>>]
  /\ loaderCalls = [k \in Keys |-> 0]
  /\ pendingAtIssue = [c \in CallIds |-> {}]
  /\ clearSeen = [c \in CallIds |-> FALSE]
  /\ evicted = [k \in Keys |-> FALSE]

InitRerankIdle ==
  /\ rrPc = "idle"
  /\ rrInst = "i1"
  /\ rrDocs = <<>>
  /\ rrTopK = 0
  /\ rrBatch = 1
  /\ rrI = 0
  /\ allResults = <<>>
  /\ rrOut = <<>>
  /\ backendCalls = 0

InitPreloadIdle == preloadPc = [c \in CallIds |-> "no"]

InitEvalIdle ==
  /\ evalFn = "none"
  /\ evalIn = <<>>
  /\ evalOut = <<>>

InitRest == InitPreloadIdle /\ InitEvalIdle

Init == InitCache /\ InitCalls /\ InitRerankIdle /\ InitRest

\* ------------------------------------------------------------------------
\* ModelLoader.initialize (called through NativeEmbeddingReranker.initialize)
\* ------------------------------------------------------------------------
\* Bookkeeping of a newly issued call (not program state)
Issue(c, k) ==
  /\ callKey' = [callKey EXCEPT ![c] = k]
  /\ pendingAtIssue' = [pendingAtIssue EXCEPT
        ![c] = {d \in CallIds : d # c /\ callKey[d] = k /\ Pending(d)}]
  /\ evicted' = [evicted EXCEPT ![k] = FALSE]
  /\ UNCHANGED clearSeen

\* initialize() without the "already loaded" early return
InitializeNoCacheCheck(c, i) ==
  LET k == instModel(i) IN
  /\ pc[c] = "idle"
  /\ \A d \in CallIds : d < c => pc[d] # "idle"
  /\ Issue(c, k)
  /\ IF initializationPromises[k] # None
       THEN /\ pc' = [pc EXCEPT ![c] = "awaitOther"]
            /\ awaited' = [awaited EXCEPT ![c] = initializationPromises[k]]
            /\ UNCHANGED <<result, promiseState, loaderCalls, cacheVars>>
     ELSE /\ pc' = [pc EXCEPT ![c] = "loadModel"]
          /\ promiseState' = [promiseState EXCEPT ![c] = <<"pending", "-">>]
          /\ loaderCalls' = [loaderCalls EXCEPT ![k] = @ + 1]
          /\ initializationPromises' = [initializationPromises EXCEPT ![k] = c]
          /\ awaited' = [awaited EXCEPT ![c] = c]
          /\ UNCHANGED <<result, models, tokenizers>>
  /\ UNCHANGED <<rrVars, restVars>>

\* The synchronous part of initialize(): cache hit, wait for the in-flight
\* promise, or start the loading closure (which calls from_pretrained for
\* the model before the promise is stored in the map).
InitializeSteps(c, i) ==
  LET k == instModel(i) IN
  /\ pc[c] = "idle"
  /\ \A d \in CallIds : d < c => pc[d] # "idle"
  /\ Issue(c, k)
  /\ IF models[k] # None
       THEN /\ pc' = [pc EXCEPT ![c] = "done"]
            /\ result' = [result EXCEPT ![c] = <<"ok", "-", 0>>]
            /\ UNCHANGED <<awaited, promiseState, loaderCalls, cacheVars>>
     ELSE IF initializationPromises[k] # None
       THEN /\ pc' = [pc EXCEPT ![c] = "awaitOther"]
            /\ awaited' = [awaited EXCEPT ![c] = initializationPromises[k]]
            /\ UNCHANGED <<result, promiseState, loaderCalls, cacheVars>>
     ELSE /\ pc' = [pc EXCEPT ![c] = "loadModel"]
          /\ promiseState' = [promiseState EXCEPT ![c] = <<"pending", "-">>]
          /\ loaderCalls' = [loaderCalls EXCEPT ![k] = @ + 1]
          /\ initializationPromises' = [initializationPromises EXCEPT ![k] = c]
          /\ awaited' = [awaited EXCEPT ![c] = c]
          /\ UNCHANGED <<result, models, tokenizers>>
  /\ UNCHANGED <<rrVars, evalVars>>

\* NativeEmbeddingReranker.initialize() called by the user
Initialize(c, i) == InitializeSteps(c, i) /\ UNCHANGED preloadPc

\* preload(): "await this.initialize()" inside try, up to the first await
\* of the initialize() call
Preload(c, i) ==
  /\ InitializeSteps(c, i)
  /\ preloadPc' = [preloadPc EXCEPT ![c] = "pending"]

\* The initialize() call awaited by preload() has settled: on success the
\* try block ends, on failure the catch block logs the error and a warning;
\* either way preload() resolves with undefined.
PreloadReturn(c) ==
  /\ preloadPc[c] = "pending"
  /\ pc[c] = "done"
  /\ preloadPc' = [preloadPc EXCEPT ![c] = "resolved"]
  /\ UNCHANGED <<cacheVars, callVars, rrVars, evalVars>>

\* The model handle is put into the map before the tokenizer is loaded
ModelLoadedStoreEarly(c) ==
  /\ pc[c] = "loadModel"
  /\ pc' = [pc EXCEPT ![c] = "loadTokenizer"]
  /\ models' = [models EXCEPT ![callKey[c]] = c]
  /\ UNCHANGED <<tokenizers, initializationPromises, callKey, awaited,
                 promiseState, result, loaderCalls, pendingAtIssue, clearSeen,
                 evicted, rrVars, restVars>>

\* AutoModelForSequenceClassification.from_pretrained resolved: the closure
\* goes on to call AutoTokenizer.from_pretrained.
ModelLoaded(c) ==
  /\ pc[c] = "loadModel"
  /\ pc' = [pc EXCEPT ![c] = "loadTokenizer"]
  /\ UNCHANGED <<cacheVars, callKey, awaited, promiseState, result, loaderCalls,
                 pendingAtIssue, clearSeen, evicted, rrVars, restVars>>

\* A failing load that leaves its marker in the map (no finally clean-up)
LoadFailedKeepMarker(c) ==
  /\ Loading(c)
  /\ promiseState' = [promiseState EXCEPT
        ![c] = <<"rejected", IF pc[c] = "loadModel" THEN "model" ELSE "tokenizer">>]
  /\ pc' = [pc EXCEPT ![c] = "done"]
  /\ result' = [result EXCEPT
        ![c] = <<"error", IF pc[c] = "loadModel" THEN "model" ELSE "tokenizer", c>>]
  /\ UNCHANGED <<cacheVars, callKey, awaited, loaderCalls,
                 pendingAtIssue, clearSeen, evicted, rrVars, restVars>>

\* Either from_pretrained rejected: catch logs and rethrows, finally deletes
\* the marker of the key, the closure's promise rejects.  The outer
\* "await promise" of the initiating call then rethrows; it reads and writes
\* nothing else, so the initiator's outcome is recorded in the same step.
LoadFailed(c) ==
  /\ Loading(c)
  /\ promiseState' = [promiseState EXCEPT
        ![c] = <<"rejected", IF pc[c] = "loadModel" THEN "model" ELSE "tokenizer">>]
  /\ initializationPromises' = [initializationPromises EXCEPT ![callKey[c]] = None]
  /\ pc' = [pc EXCEPT ![c] = "done"]
  /\ result' = [result EXCEPT
        ![c] = <<"error", IF pc[c] = "loadModel" THEN "model" ELSE "tokenizer", c>>]
  /\ UNCHANGED <<models, tokenizers, callKey, awaited, loaderCalls,
                 pendingAtIssue, clearSeen, evicted, rrVars, restVars>>

\* AutoTokenizer.from_pretrained resolved: both handles are stored, finally
\* deletes the marker of the key, the closure's promise fulfils and the
\* initiating call returns.
TokenizerLoaded(c) ==
  /\ pc[c] = "loadTokenizer"
  /\ models' = [models EXCEPT ![callKey[c]] = c]
  /\ tokenizers' = [tokenizers EXCEPT ![callKey[c]] = c]
  /\ initializationPromises' = [initializationPromises EXCEPT ![callKey[c]] = None]
  /\ promiseState' = [promiseState EXCEPT ![c] = <<"fulfilled", "-">>]
  /\ pc' = [pc EXCEPT ![c] = "done"]
  /\ result' = [result EXCEPT ![c] = <<"ok", "-", 0>>]
  /\ UNCHANGED <<callKey, awaited, loaderCalls, pendingAtIssue,
                 clearSeen, evicted, rrVars, restVars>>

\* A waiting call that polls the model map in place of awaiting the
\* promise: it resumes once the key has an entry
ResumeOnCacheEntry(c) ==
  /\ pc[c] = "awaitOther"
  /\ models[callKey[c]] # None
  /\ result' = [result EXCEPT ![c] = <<"ok", "-", 0>>]
  /\ pc' = [pc EXCEPT ![c] = "done"]
  /\ UNCHANGED <<cacheVars, callKey, awaited, promiseState, loaderCalls,
                 pendingAtIssue, clearSeen, evicted, rrVars, restVars>>

\* "await ModelLoader.#initializationPromises.get(this.modelName)" resumes
\* once the awaited promise is settled; the waiting caller observes its
\* outcome.
Resume(c) ==
  /\ pc[c] = "awaitOther"
  /\ Settled(awaited[c])
  /\ result' = [result EXCEPT ![c] = OutcomeOf(awaited[c])]
  /\ pc' = [pc EXCEPT ![c] = "done"]
  /\ UNCHANGED <<cacheVars, callKey, awaited, promiseState, loaderCalls,
                 pendingAtIssue, clearSeen, evicted, rrVars, restVars>>

\* ------------------------------------------------------------------------
\* ModelLoader.clearCache and NativeEmbeddingReranker.dispose
\* ------------------------------------------------------------------------
\* Bookkeeping: pending calls of the cleared keys have seen a clearCache
NoteClear(ks) ==
  /\ clearSeen' = [c \in CallIds |-> clearSeen[c] \/ (Pending(c) /\ callKey[c] \in ks)]
  /\ evicted' = [k \in Keys |-> evicted[k] \/ k \in ks]

\* clearCache(name) that forgets the pending promise only
ClearCacheOnlyPromises(k) ==
  /\ initializationPromises' = [initializationPromises EXCEPT ![k] = None]
  /\ NoteClear({k})
  /\ UNCHANGED <<models, tokenizers, pc, callKey, awaited, promiseState, result,
                 loaderCalls, pendingAtIssue, rrVars, restVars>>

\* clearCache(name) whose third delete is a clear() of the whole promise map
ClearCacheDropsAllMarkers(k) ==
  /\ models' = [models EXCEPT ![k] = None]
  /\ tokenizers' = [tokenizers EXCEPT ![k] = None]
  /\ initializationPromises' = [j \in Keys |-> None]
  /\ NoteClear({k})
  /\ UNCHANGED <<pc, callKey, awaited, promiseState, result, loaderCalls,
                 pendingAtIssue, rrVars, restVars>>

\* clearCache(modelNameToClear) with a model name
ClearCache(k) ==
  /\ models' = [models EXCEPT ![k] = None]
  /\ tokenizers' = [tokenizers EXCEPT ![k] = None]
  /\ initializationPromises' = [initializationPromises EXCEPT ![k] = None]
  /\ NoteClear({k})
  /\ UNCHANGED <<pc, callKey, awaited, promiseState, result, loaderCalls,
                 pendingAtIssue, rrVars, restVars>>

\* clearCache() without argument
ClearAll ==
  /\ models' = [k \in Keys |-> None]
  /\ tokenizers' = [k \in Keys |-> None]
  /\ initializationPromises' = [k \in Keys |-> None]
  /\ NoteClear(Keys)
  /\ UNCHANGED <<pc, callKey, awaited, promiseState, result, loaderCalls,
                 pendingAtIssue, rrVars, restVars>>

\* dispose(): ModelLoader.clearCache(this.model)
Dispose(i) == ClearCache(instModel(i))


\* ------------------------------------------------------------------------
\* Documents, backend and score normalization
\* ------------------------------------------------------------------------
\* A document is a plain string or a record with a text field and extra fields
StringDoc(t) == [kind |-> "string", value |-> t]
RecordDoc(f) == [kind |-> "record", fields |-> f]

Docs == { StringDoc("t1"), StringDoc("t2"),
          RecordDoc([text |-> "t3", id |-> "a"]),
          RecordDoc([text |-> "t1", id |-> "b"]) }

\* Records fed to rerank that need care: an item of an earlier rerank call
\* (it carries the two result keys) and a record without a text field
FedBackDoc ==
  RecordDoc([text |-> "t2", _rerank_corpus_id |-> 0, _rerank_score |-> 9000])
NoTextDoc == RecordDoc([id |-> "c"])

AnyDocs == Docs \cup {FedBackDoc, NoTextDoc}

\* typeof doc === 'string' ? doc : doc.text (undefined without a text field)
TextOf(doc) ==
  IF doc.kind = "string" THEN doc.value
  ELSE IF "text" \in DOMAIN doc.fields THEN doc.fields.text
  ELSE "undefined"

\* Number of logit columns of the model behind a key (logits.dims[1])
Columns(k) == IF k = "kA" THEN 1 ELSE 2

\* model.config.id2label of the model behind a key
Id2Label(k) == IF k = "kA" THEN <<"LABEL_0">> ELSE <<"LABEL_0", "LABEL_1">>

\* /relevant|positive/i.test(label): the label names in use that contain
\* "relevant" or "positive" in any letter case
LabelMatches(label) ==
  label \in {"RELEVANT", "relevant", "POSITIVE", "positive",
             "NOT_RELEVANT", "irrelevant"}

\* Object.keys(id2label).find(...) ?? 0
FindPositiveClassFallbackZero(id2label) ==
  LET hits == {j \in 1..Len(id2label) : LabelMatches(id2label[j])}
  IN IF hits = {} THEN 0
     ELSE (CHOOSE j \in hits : \A h \in hits : j <= h) - 1

\* Number(Object.keys(id2label).find(key => regex.test(id2label[key])) ?? 1):
\* the first key, in ascending order, whose label matches, as a 0-based
\* column index; the map is a sequence, a missing map is the empty one
FindPositiveClass(id2label) ==
  LET hits == {j \in 1..Len(id2label) : LabelMatches(id2label[j])}
  IN IF hits = {} THEN 1
     ELSE (CHOOSE j \in hits : \A h \in hits : j <= h) - 1

\* positiveClassIndex of the model behind a key
PositiveClassIndex(k) == FindPositiveClass(Id2Label(k))

\* Raw logit the deterministic backend gives a passage text (integer logits)
Logit(t) == CASE t = "t1" -> 1
              [] t = "t2" -> -1
              [] t = "t3" -> 2
              [] OTHER -> 0

\* Row of logits.tolist() for one pair
LogitRow(k, t) == IF Columns(k) = 1 THEN <<Logit(t)>> ELSE <<0 - Logit(t), Logit(t)>>

\* Fixed-point arithmetic: a real r is represented by round(r * Scale)
Scale == 10000

\* Math.exp on the integer logits in use
Exp(x) == CASE x = -4 -> 183
            [] x = -3 -> 498
            [] x = -2 -> 1353
            [] x = -1 -> 3679
            [] x = 0 -> 10000
            [] x = 1 -> 27183
            [] x = 2 -> 73891
            [] x = 3 -> 200855
            [] x = 4 -> 545982

\* #sigmoid(x) = 1 / (1 + Math.exp(-x))
sigmoid(x) == (Scale * Scale) \div (Scale + Exp(0 - x))

RECURSIVE SumExp(_)
SumExp(row) == IF row = <<>> THEN 0 ELSE Exp(Head(row)) + SumExp(Tail(row))

\* #softmax(arr)
softmax(row) == [j \in 1..Len(row) |-> (Exp(row[j]) * Scale) \div SumExp(row)]

\* The score taken from the softmax whatever the number of columns (column
\* 0 when the positive class index is beyond the row)
ScoreOfAlwaysSoftmax(k, row) ==
  LET c == IF PositiveClassIndex(k) < Len(row) THEN PositiveClassIndex(k) ELSE 0
  IN softmax(row)[c + 1]

\* A JavaScript number that is not a result: undefined or NaN
Undefined == 0 - 1

\* Score getScores computes for one logits row under a label map:
\* logits.dims[1] === 1 selects the sigmoid of the single logit, anything
\* else row[positiveClassIndex] of the softmax (undefined beyond the row)
ScoreRow(id2label, row) ==
  IF Len(row) = 1 THEN sigmoid(row[1])
  ELSE IF FindPositiveClass(id2label) < Len(row)
         THEN softmax(row)[FindPositiveClass(id2label) + 1]
       ELSE Undefined

\* Score getScores computes for one logits row of the model behind key k
ScoreOf(k, row) == ScoreRow(Id2Label(k), row)

\* getScores whose shape test reads the number of rows (shape[0]) in place
\* of the number of columns
getScoresByRows(k, texts) ==
  [j \in 1..Len(texts) |->
     LET row == LogitRow(k, texts[j])
     IN IF Len(texts) = 1 THEN sigmoid(row[1])
        ELSE IF PositiveClassIndex(k) < Len(row)
               THEN softmax(row)[PositiveClassIndex(k) + 1]
             ELSE Undefined]

\* getScores(queryPassagePairs) for the texts of one chunk, once the
\* backend has answered: one score per pair, in pair order
getScores(k, texts) == [j \in 1..Len(texts) |-> ScoreOf(k, LogitRow(k, texts[j]))]

\* { _rerank_corpus_id, _rerank_score, text }: the other fields are dropped
ItemOfTextOnly(doc, idx, score) ==
  [text |-> IF doc.kind = "string" THEN doc.value ELSE doc.fields.text,
   _rerank_corpus_id |-> idx, _rerank_score |-> score]

\* { _rerank_corpus_id, _rerank_score, ...(string ? {text: doc} : doc) }:
\* the spread comes last, so the fields of a record win over the two keys
ItemOf(doc, idx, score) ==
  (IF doc.kind = "string" THEN [text |-> doc.value] ELSE doc.fields)
    @@ [_rerank_corpus_id |-> idx, _rerank_score |-> score]

\* Array.prototype.slice index: negative counts from the end, clamped to 0..n
SliceIndex(x, n) ==
  IF x < 0 THEN (IF n + x > 0 THEN n + x ELSE 0)
  ELSE IF x > n THEN n ELSE x

\* documents.slice(i, chunkEnd + 1): one document more than the batch size
ChunkOneMore(docs, start, b) ==
  LET n == Len(docs)
      chunkEnd == IF start + b + 1 < n THEN start + b + 1 ELSE n
      from == SliceIndex(start, n)
      to == SliceIndex(chunkEnd, n)
  IN [j \in 1..(to - from) |-> docs[from + j]]

\* documents.slice(chunkStart, chunkEnd) with 0-based chunkStart and
\* chunkEnd = Math.min(i + batchSize, documents.length)
Chunk(docs, start, b) ==
  LET n == Len(docs)
      chunkEnd == IF start + b < n THEN start + b ELSE n
      from == SliceIndex(start, n)
      to == SliceIndex(chunkEnd, n)
  IN [j \in 1..(to - from) |-> docs[from + j]]

\* chunkScores.map((result, j) => ...) with the index inside the chunk, j,
\* in place of chunkStart + j
ChunkResultsLocalIndex(k, docs, start, b) ==
  LET chunk == Chunk(docs, start, b)
      scores == getScores(k, [j \in 1..Len(chunk) |-> TextOf(chunk[j])])
  IN [j \in 1..Len(scores) |-> ItemOf(docs[start + j], j - 1, scores[j])]

\* chunkScores.map((result, j) => ...) for the chunk starting at start
ChunkResults(k, docs, start, b) ==
  LET chunk == Chunk(docs, start, b)
      scores == getScores(k, [j \in 1..Len(chunk) |-> TextOf(chunk[j])])
  IN [j \in 1..Len(scores) |-> ItemOf(docs[start + j], start + j - 1, scores[j])]

\* Insertion for the comparator a._rerank_score - b._rerank_score
RECURSIVE InsertAsc(_, _)
InsertAsc(sorted, x) ==
  IF sorted = <<>> THEN <<x>>
  ELSE IF Head(sorted)._rerank_score <= x._rerank_score
         THEN <<Head(sorted)>> \o InsertAsc(Tail(sorted), x)
       ELSE <<x>> \o sorted

\* A descending sort that places an item ahead of the items of equal score
RECURSIVE InsertDescUnstable(_, _)
InsertDescUnstable(sorted, x) ==
  IF sorted = <<>> THEN <<x>>
  ELSE IF Head(sorted)._rerank_score > x._rerank_score
         THEN <<Head(sorted)>> \o InsertDescUnstable(Tail(sorted), x)
       ELSE <<x>> \o sorted

\* Array.prototype.sort((a, b) => b._rerank_score - a._rerank_score):
\* stable, descending by score
RECURSIVE InsertDesc(_, _)
InsertDesc(sorted, x) ==
  IF sorted = <<>> THEN <<x>>
  ELSE IF Head(sorted)._rerank_score >= x._rerank_score
         THEN <<Head(sorted)>> \o InsertDesc(Tail(sorted), x)
       ELSE <<x>> \o sorted

RECURSIVE SortDesc(_)
SortDesc(items) ==
  IF items = <<>> THEN <<>>
  ELSE InsertDesc(SortDesc(SubSeq(items, 1, Len(items) - 1)), items[Len(items)])

\* slice(0, topK + 1)
SliceTopKInclusive(items, k) ==
  LET n == Len(items)
  IN SubSeq(items, 1, IF k + 1 < n THEN k + 1 ELSE n)

\* reranked.slice(0, topK): a negative topK counts from the end
SliceTopK(items, k) ==
  LET n == Len(items)
      end == IF k < 0 THEN (IF n + k > 0 THEN n + k ELSE 0)
             ELSE IF k < n THEN k ELSE n
  IN SubSeq(items, 1, end)

\* The loop of rerank as a function of the batch size b >= 1: the items of
\* all chunks from chunkStart = start on, in the order they are pushed
RECURSIVE CollectBatches(_, _, _, _)
CollectBatches(k, docs, start, b) ==
  IF start >= Len(docs) THEN <<>>
  ELSE ChunkResults(k, docs, start, b) \o CollectBatches(k, docs, start + b, b)

\* What rerank returns for batch size b >= 1 when every batch is answered
RerankAll(k, docs, topK, b) ==
  SliceTopK(SortDesc(CollectBatches(k, docs, 0, b)), topK)


\* ------------------------------------------------------------------------
\* NativeEmbeddingReranker.rerank with ModelLoader.getScores
\* ------------------------------------------------------------------------
\* A loop iteration whose getScores does not test the cache for the key
EnterBatchNoCheck(i, docs, b, start, acc, calls) ==
  /\ rrI' = start
  /\ allResults' = acc
  /\ rrOut' = <<>>
  /\ IF Len(Chunk(docs, start, b)) = 0
       THEN rrPc' = "skip" /\ backendCalls' = calls
     ELSE \/ rrPc' = "infer" /\ backendCalls' = calls + 1
          \/ rrPc' = "inferenceError" /\ backendCalls' = calls

\* Start of one loop iteration, up to "await model(features)" in getScores:
\* getScores throws when the model or the tokenizer of the key is missing,
\* returns [] for an empty chunk without calling the backend, and otherwise
\* tokenizes the chunk (the tokenizer may throw) and sends it to the model.
EnterBatch(i, docs, b, start, acc, calls) ==
  /\ rrI' = start
  /\ allResults' = acc
  /\ rrOut' = <<>>
  /\ IF ~isLoaded(i)
       THEN rrPc' = "notInitialized" /\ backendCalls' = calls
     ELSE IF Len(Chunk(docs, start, b)) = 0
       THEN rrPc' = "skip" /\ backendCalls' = calls
     ELSE \/ rrPc' = "infer" /\ backendCalls' = calls + 1
          \/ rrPc' = "inferenceError" /\ backendCalls' = calls

\* rerank with the model check of getScores done ahead of the empty-list
\* return
RerankStartChecksFirst(i, docs, topK, b) ==
  /\ rrPc \in {"idle", "done", "notInitialized", "inferenceError"}
  /\ rrInst' = i
  /\ rrDocs' = docs
  /\ rrTopK' = topK
  /\ rrBatch' = b
  /\ IF ~isLoaded(i)
       THEN /\ rrPc' = "notInitialized"
            /\ rrOut' = <<>>
            /\ rrI' = 0
            /\ allResults' = <<>>
            /\ backendCalls' = 0
     ELSE IF Len(docs) = 0
       THEN /\ rrPc' = "done"
            /\ rrOut' = <<>>
            /\ rrI' = 0
            /\ allResults' = <<>>
            /\ backendCalls' = 0
       ELSE EnterBatch(i, docs, b, 0, <<>>, 0)
  /\ UNCHANGED <<cacheVars, callVars, restVars>>

\* rerank(query, documents, {topK, batchSize}) up to its first await
RerankStart(i, docs, topK, b) ==
  /\ rrPc \in {"idle", "done", "notInitialized", "inferenceError"}
  /\ rrInst' = i
  /\ rrDocs' = docs
  /\ rrTopK' = topK
  /\ rrBatch' = b
  /\ IF Len(docs) = 0
       THEN /\ rrPc' = "done"
            /\ rrOut' = <<>>
            /\ rrI' = 0
            /\ allResults' = <<>>
            /\ backendCalls' = 0
       ELSE EnterBatch(i, docs, b, 0, <<>>, 0)
  /\ UNCHANGED <<cacheVars, callVars, restVars>>

\* rerank(query, null or undefined, options): "!documents" returns []
RerankMissing(i, topK, b) ==
  /\ rrPc \in {"idle", "done", "notInitialized", "inferenceError"}
  /\ rrInst' = i
  /\ rrDocs' = <<>>
  /\ rrTopK' = topK
  /\ rrBatch' = b
  /\ rrPc' = "done"
  /\ rrOut' = <<>>
  /\ rrI' = 0
  /\ allResults' = <<>>
  /\ backendCalls' = 0
  /\ UNCHANGED <<cacheVars, callVars, restVars>>

\* The loop of rerank with i++ in place of i += batchSize
BatchReturnStepOne ==
  /\ rrPc \in {"infer", "skip"}
  /\ LET k == instModel(rrInst)
         acc == allResults \o ChunkResults(k, rrDocs, rrI, rrBatch)
         next == rrI + 1
     IN IF next < Len(rrDocs)
          THEN /\ next >= 0 - MaxSpin
               /\ EnterBatch(rrInst, rrDocs, rrBatch, next, acc, backendCalls)
          ELSE /\ rrPc' = "done"
               /\ rrI' = next
               /\ allResults' = SortDesc(acc)
               /\ rrOut' = SliceTopK(SortDesc(acc), rrTopK)
               /\ UNCHANGED backendCalls
  /\ UNCHANGED <<rrInst, rrDocs, rrTopK, rrBatch, cacheVars, callVars, restVars>>

\* A loop that, finding the key evicted at the next batch, stops and
\* returns the sorted items of the batches scored so far
BatchReturnPartialOnEviction ==
  /\ rrPc \in {"infer", "skip"}
  /\ LET k == instModel(rrInst)
         acc == allResults \o ChunkResults(k, rrDocs, rrI, rrBatch)
         next == rrI + rrBatch
     IN IF next < Len(rrDocs) /\ isLoaded(rrInst)
          THEN /\ next >= 0 - MaxSpin
               /\ EnterBatch(rrInst, rrDocs, rrBatch, next, acc, backendCalls)
          ELSE /\ rrPc' = "done"
               /\ rrI' = next
               /\ allResults' = SortDesc(acc)
               /\ rrOut' = SliceTopK(SortDesc(acc), rrTopK)
               /\ UNCHANGED backendCalls
  /\ UNCHANGED <<rrInst, rrDocs, rrTopK, rrBatch, cacheVars, callVars, restVars>>

\* getScores resolved for the current chunk (model(features) answered, or
\* the chunk was empty): scores are normalized, the chunk's items are
\* pushed, and the loop either enters the next chunk or sorts, slices and
\* returns.  With batchSize <= 0 the loop variable never reaches the length;
\* the model follows it down to -MaxSpin.
BatchReturn ==
  /\ rrPc \in {"infer", "skip"}
  /\ LET k == instModel(rrInst)
         acc == allResults \o ChunkResults(k, rrDocs, rrI, rrBatch)
         next == rrI + rrBatch
     IN IF next < Len(rrDocs)
          THEN /\ next >= 0 - MaxSpin
               /\ EnterBatch(rrInst, rrDocs, rrBatch, next, acc, backendCalls)
          ELSE /\ rrPc' = "done"
               /\ rrI' = next
               /\ allResults' = SortDesc(acc)
               /\ rrOut' = SliceTopK(SortDesc(acc), rrTopK)
               /\ UNCHANGED backendCalls
  /\ UNCHANGED <<rrInst, rrDocs, rrTopK, rrBatch, cacheVars, callVars, restVars>>

\* model(features) threw and the catch block drops the cache entry of the
\* model before rethrowing
BatchFailClearsCache ==
  /\ rrPc = "infer"
  /\ rrPc' = "inferenceError"
  /\ rrOut' = <<>>
  /\ models' = [models EXCEPT ![instModel(rrInst)] = None]
  /\ tokenizers' = [tokenizers EXCEPT ![instModel(rrInst)] = None]
  /\ UNCHANGED <<rrInst, rrDocs, rrTopK, rrBatch, rrI, allResults,
                 backendCalls, initializationPromises, callVars, restVars>>

\* model(features) threw and the catch block hands out the items so far
BatchFailDeliversPartial ==
  /\ rrPc = "infer"
  /\ rrPc' = "inferenceError"
  /\ rrOut' = allResults
  /\ UNCHANGED <<rrInst, rrDocs, rrTopK, rrBatch, rrI, allResults,
                 backendCalls, cacheVars, callVars, restVars>>

\* model(features) threw: getScores and rerank log and
\* rethrow, nothing is returned
BatchFail ==
  /\ rrPc = "infer"
  /\ rrPc' = "inferenceError"
  /\ rrOut' = <<>>
  /\ UNCHANGED <<rrInst, rrDocs, rrTopK, rrBatch, rrI, allResults, backendCalls,
                 cacheVars, callVars, restVars>>

\* ------------------------------------------------------------------------
\* EvaluationMetrics (test-suite.js).  A ranked list is the sequence of the
\* isRelevant flags of its passages; metric values are fixed-point numbers.
\* ------------------------------------------------------------------------
\* Math.min(rankedPassages.length, k)
Cutoff(ranked, k) == IF Len(ranked) < k THEN Len(ranked) ELSE k

\* x / y for two counts; a zero divisor gives NaN or Infinity
Divide(x, y) == IF y = 0 THEN Undefined ELSE (x * Scale) \div y

\* rankedPassages.filter(p => p.isRelevant).length
RelevantCount(ranked) == Cardinality({j \in 1..Len(ranked) : ranked[j]})

\* rankedPassages.slice(0, Math.min(k, rankedPassages.length))
TopKOf(ranked, k) == SubSeq(ranked, 1, Cutoff(ranked, k))

\* calculateMRR with the loop running over the whole list
calculateMRRNoCutoff(ranked, k) ==
  LET relevantRanks == SelectSeq([j \in 1..Len(ranked) |-> j],
                                 LAMBDA j : ranked[j])
  IN IF Len(relevantRanks) = 0 THEN 0 ELSE Divide(1, relevantRanks[1])

\* calculateMRR that returns the reciprocal rank of the last relevant
\* passage within the cutoff
calculateMRRLastRelevant(ranked, k) ==
  LET relevantRanks == SelectSeq([j \in 1..Cutoff(ranked, k) |-> j],
                                 LAMBDA j : ranked[j])
  IN IF Len(relevantRanks) = 0 THEN 0
     ELSE Divide(1, relevantRanks[Len(relevantRanks)])

\* calculateMRR(rankedPassages, k)
calculateMRR(ranked, k) ==
  LET relevantRanks == SelectSeq([j \in 1..Cutoff(ranked, k) |-> j],
                                 LAMBDA j : ranked[j])
  IN IF Len(relevantRanks) = 0 THEN 0 ELSE Divide(1, relevantRanks[1])

\* The gain of a relevant passage at 0-based position i: 1 for i = 0 and
\* 1 / Math.log2(i + 1) after it
Gain(i) == CASE i = 0 -> Scale
             [] i = 1 -> 10000
             [] i = 2 -> 6309
             [] i = 3 -> 5000
             [] i = 4 -> 4307
             [] i = 5 -> 3869
             [] i = 6 -> 3562
             [] i = 7 -> 3333

\* Sum of the gains of the relevant positions of a list of flags
RECURSIVE GainSum(_)
GainSum(flags) ==
  IF flags = <<>> THEN 0
  ELSE GainSum(SubSeq(flags, 1, Len(flags) - 1))
         + (IF flags[Len(flags)] THEN Gain(Len(flags) - 1) ELSE 0)

\* calculateDCG(rankedPassages, k): the loop over the first
\* Math.min(rankedPassages.length, k) passages
calculateDCG(ranked, k) == GainSum(TopKOf(ranked, k))

\* calculateIDCG that takes every one of the first k passages as relevant
calculateIDCGTopK(ranked, k) ==
  GainSum([j \in 1..Cutoff(ranked, k) |-> TRUE])

\* calculateIDCG(rankedPassages, k): the loop over
\* Math.min(relevantCount, k) positions, each with relevance 1
calculateIDCG(ranked, k) ==
  LET relevantCount == RelevantCount(ranked)
      maxRelevant == IF relevantCount < k THEN relevantCount ELSE k
  IN GainSum([j \in 1..maxRelevant |-> TRUE])

\* calculateNDCG(rankedPassages, k)
calculateNDCG(ranked, k) ==
  IF calculateIDCG(ranked, k) > 0
    THEN (calculateDCG(ranked, k) * Scale) \div calculateIDCG(ranked, k)
    ELSE 0

\* calculatePrecisionAtK that divides by k
calculatePrecisionAtKDivK(ranked, k) ==
  IF k = 0 \/ Len(ranked) = 0 THEN 0
  ELSE Divide(RelevantCount(TopKOf(ranked, k)), k)

\* calculatePrecisionAtK(rankedPassages, k)
calculatePrecisionAtK(ranked, k) ==
  IF k = 0 \/ Len(ranked) = 0 THEN 0
  ELSE Divide(RelevantCount(TopKOf(ranked, k)), Cutoff(ranked, k))

\* calculateRecallAtK without the test for totalRelevant === 0
calculateRecallAtKNoGuard(ranked, k) ==
  Divide(RelevantCount(TopKOf(ranked, k)), RelevantCount(ranked))

\* calculateRecallAtK(rankedPassages, k)
calculateRecallAtK(ranked, k) ==
  IF RelevantCount(ranked) = 0 THEN 0
  ELSE Divide(RelevantCount(TopKOf(ranked, k)), RelevantCount(ranked))

\* The keys `MRR@${k}`, ... of a metrics object, as <<name, k>>
MetricNames == {"MRR", "NDCG", "Precision", "Recall"}
MetricKeys(kValues) ==
  {<<m, kValues[j]>> : m \in MetricNames, j \in 1..Len(kValues)}

\* calculateAllMetrics(rankedPassages, kValues)
calculateAllMetrics(ranked, kValues) ==
  [key \in MetricKeys(kValues) |->
     CASE key[1] = "MRR" -> calculateMRR(ranked, key[2])
       [] key[1] = "NDCG" -> calculateNDCG(ranked, key[2])
       [] key[1] = "Precision" -> calculatePrecisionAtK(ranked, key[2])
       [] key[1] = "Recall" -> calculateRecallAtK(ranked, key[2])]

\* metricSums after the loop over the valid results
RECURSIVE MetricSums(_, _)
MetricSums(validResults, kValues) ==
  IF validResults = <<>> THEN [key \in MetricKeys(kValues) |-> 0]
  ELSE LET before == MetricSums(SubSeq(validResults, 1, Len(validResults) - 1),
                                kValues)
           metrics == calculateAllMetrics(
                        validResults[Len(validResults)].rankedPassages, kValues)
       IN [key \in MetricKeys(kValues) |-> before[key] + metrics[key]]

\* The averages with the sums divided by the number of all query results
calculateAverageMetricsOverAll(queryResults, kValues) ==
  LET validResults == SelectSeq(queryResults, LAMBDA r : ~r.error)
      metricSums == MetricSums(validResults, kValues)
  IN IF Len(queryResults) = 0 THEN <<>>
     ELSE IF Len(validResults) = 0
       THEN [error |-> "No valid results to calculate metrics"]
     ELSE [averages |-> [key \in MetricKeys(kValues) |->
                           metricSums[key] \div Len(queryResults)],
           totalQueries |-> Len(queryResults),
           validQueries |-> Len(validResults),
           errorQueries |-> Len(queryResults) - Len(validResults)]

\* calculateAverageMetrics(queryResults, kValues): {} for an empty list,
\* {error} when no result is valid, else the averages (top-level keys of
\* the returned object, gathered here under averages) and the three counts
calculateAverageMetrics(queryResults, kValues) ==
  LET validResults == SelectSeq(queryResults, LAMBDA r : ~r.error)
      metricSums == MetricSums(validResults, kValues)
  IN IF Len(queryResults) = 0 THEN <<>>
     ELSE IF Len(validResults) = 0
       THEN [error |-> "No valid results to calculate metrics"]
     ELSE [averages |-> [key \in MetricKeys(kValues) |->
                           metricSums[key] \div Len(validResults)],
           totalQueries |-> Len(queryResults),
           validQueries |-> Len(validResults),
           errorQueries |-> Len(queryResults) - Len(validResults)]

\* ------------------------------------------------------------------------
\* Spec: the cache under concurrent initialize / clearCache / dispose calls
\* ------------------------------------------------------------------------
Next ==
  \/ \E c \in CallIds, i \in Instances : Initialize(c, i)
  \/ \E c \in CallIds : ModelLoaded(c)
  \/ \E c \in CallIds : LoadFailed(c)
  \/ \E c \in CallIds : TokenizerLoaded(c)
  \/ \E c \in CallIds : Resume(c)
  \/ \E k \in Keys : ClearCache(k)
  \/ ClearAll
  \/ \E i \in Instances : Dispose(i)

Spec == Init /\ [][Next]_vars

\* ------------------------------------------------------------------------
\* SpecShared: instances reranking on the shared cache while it is being
\* initialized and evicted (two-batch workload)
\* ------------------------------------------------------------------------
MaxSharedCalls == 2     \* initialize() calls issued in one behaviour of SpecShared

SharedDocLists == { <<>>, <<StringDoc("t1"), StringDoc("t2")>> }

NextShared ==
  \/ \E c \in 1..MaxSharedCalls, i \in Instances : Initialize(c, i)
  \/ \E c \in CallIds : ModelLoaded(c)
  \/ \E c \in CallIds : LoadFailed(c)
  \/ \E c \in CallIds : TokenizerLoaded(c)
  \/ \E c \in CallIds : Resume(c)
  \/ \E k \in Keys : ClearCache(k)
  \/ ClearAll
  \/ \E i \in Instances : Dispose(i)
  \/ \E i \in Instances, docs \in SharedDocLists : RerankStart(i, docs, 1, 1)
  \/ \E i \in Instances : RerankMissing(i, 1, 1)
  \/ BatchReturn
  \/ BatchFail

SpecShared == Init /\ [][NextShared]_vars

\* ------------------------------------------------------------------------
\* SpecRerank: rerank over all bounded inputs, on a cache in which both
\* keys have been initialized (call 1 loaded kA, call 2 loaded kB)
\* ------------------------------------------------------------------------
RECURSIVE SeqsUpTo(_, _)
SeqsUpTo(S, n) ==
  IF n = 0 THEN {<<>>}
  ELSE LET shorter == SeqsUpTo(S, n - 1)
       IN shorter \cup {Append(q, x) : q \in {r \in shorter : Len(r) = n - 1}, x \in S}

DocLists == SeqsUpTo(Docs, MaxDocs)

LoadedBy(k) == IF k = "kA" THEN 1 ELSE 2

InitLoaded ==
  /\ models = [k \in Keys |-> LoadedBy(k)]
  /\ tokenizers = [k \in Keys |-> LoadedBy(k)]
  /\ initializationPromises = [k \in Keys |-> None]
  /\ pc = [c \in CallIds |-> IF c <= 2 THEN "done" ELSE "idle"]
  /\ callKey = [c \in CallIds |-> IF c = 1 THEN "kA" ELSE IF c = 2 THEN "kB" ELSE "-"]
  /\ awaited = [c \in CallIds |-> IF c <= 2 THEN c ELSE None]
  /\ promiseState = [c \in CallIds |->
        IF c <= 2 THEN <<"fulfilled", "-">> ELSE <<"none", "-">>]
  /\ result = [c \in CallIds |-> IF c <= 2 THEN <<"ok", "-", 0>> ELSE <<"none", "-", 0>>]
  /\ loaderCalls = [k \in Keys |-> 1]
  /\ pendingAtIssue = [c \in CallIds |-> {}]
  /\ clearSeen = [c \in CallIds |-> FALSE]
  /\ evicted = [k \in Keys |-> FALSE]

\* The arguments of the rerank call are drawn here; rerank has not started
InitRerankArgs ==
  /\ rrPc = "idle"
  /\ rrInst \in Instances
  /\ rrDocs \in DocLists
  /\ rrTopK \in 0..MaxTopK
  /\ rrBatch \in 1..MaxBatch
  /\ rrI = 0
  /\ allResults = <<>>
  /\ rrOut = <<>>
  /\ backendCalls = 0

InitRerank == InitLoaded /\ InitRerankArgs /\ InitRest

NextRerank ==
  \/ rrPc = "idle" /\ RerankStart(rrInst, rrDocs, rrTopK, rrBatch)
  \/ rrPc = "idle" /\ rrDocs = <<>> /\ RerankMissing(rrInst, rrTopK, rrBatch)
  \/ BatchReturn
  \/ BatchFail
  \/ \E i \in Instances : Dispose(i)

SpecRerank == InitRerank /\ [][NextRerank]_vars

\* ------------------------------------------------------------------------
\* SpecRerankAny: rerank over arbitrary arguments: lists that may hold a
\* fed-back result item or a record without text, and options below their
\* documented range
\* ------------------------------------------------------------------------
AnyDocLists == SeqsUpTo(AnyDocs, MaxDocs)

InitRerankAnyArgs ==
  /\ rrPc = "idle"
  /\ rrInst \in Instances
  /\ rrDocs \in AnyDocLists
  /\ rrTopK \in (0 - MaxNeg)..MaxTopK
  /\ rrBatch \in (0 - MaxNeg)..MaxBatch
  /\ rrI = 0
  /\ allResults = <<>>
  /\ rrOut = <<>>
  /\ backendCalls = 0

InitRerankAny == InitLoaded /\ InitRerankAnyArgs /\ InitRest

NextRerankAny ==
  \/ rrPc = "idle" /\ RerankStart(rrInst, rrDocs, rrTopK, rrBatch)
  \/ rrPc = "idle" /\ rrDocs = <<>> /\ RerankMissing(rrInst, rrTopK, rrBatch)
  \/ BatchReturn
  \/ BatchFail
  \/ \E i \in Instances : Dispose(i)

SpecRerankAny == InitRerankAny /\ [][NextRerankAny]_vars

\* ------------------------------------------------------------------------
\* SpecLabels: the normalization of getScores applied to one logits row
\* under every label map over LabelNames
\* ------------------------------------------------------------------------
LabelNames ==
  {"LABEL_0", "LABEL_1", "RELEVANT", "positive", "NOT_RELEVANT", "irrelevant",
   "negative"}

LabelRows == {<<0 - 2, 2>>, <<1, 0 - 1>>, <<0, 1, 0 - 1>>}

InitLabels ==
  /\ evalFn = "none"
  /\ evalIn \in [id2label : SeqsUpTo(LabelNames, MaxLabels), row : LabelRows]
  /\ evalOut = <<>>
  /\ InitCache /\ InitCalls /\ InitRerankIdle /\ InitPreloadIdle

\* getScores for one pair: the positive class index and the score
GetScoresRow ==
  /\ evalFn = "none"
  /\ evalFn' = "getScores"
  /\ evalOut' = [positiveClassIndex |-> FindPositiveClass(evalIn.id2label),
                 score |-> ScoreRow(evalIn.id2label, evalIn.row)]
  /\ UNCHANGED <<evalIn, preloadPc, cacheVars, callVars, rrVars>>

NextLabels == GetScoresRow

SpecLabels == InitLabels /\ [][NextLabels]_vars

\* ------------------------------------------------------------------------
\* SpecMetrics: each metric applied to every ranked list up to MaxRanked
\* passages and every cutoff 0..MaxK
\* ------------------------------------------------------------------------
InitMetrics ==
  /\ evalFn = "none"
  /\ evalIn \in [rankedPassages : SeqsUpTo(BOOLEAN, MaxRanked), k : 0..MaxK]
  /\ evalOut = <<>>
  /\ InitCache /\ InitCalls /\ InitRerankIdle /\ InitPreloadIdle

EvalMRR ==
  /\ evalFn = "none"
  /\ evalFn' = "calculateMRR"
  /\ evalOut' = calculateMRR(evalIn.rankedPassages, evalIn.k)
  /\ UNCHANGED <<evalIn, preloadPc, cacheVars, callVars, rrVars>>

EvalNDCG ==
  /\ evalFn = "none"
  /\ evalFn' = "calculateNDCG"
  /\ evalOut' = [dcg |-> calculateDCG(evalIn.rankedPassages, evalIn.k),
                 idcg |-> calculateIDCG(evalIn.rankedPassages, evalIn.k),
                 ndcg |-> calculateNDCG(evalIn.rankedPassages, evalIn.k)]
  /\ UNCHANGED <<evalIn, preloadPc, cacheVars, callVars, rrVars>>

EvalPrecisionAtK ==
  /\ evalFn = "none"
  /\ evalFn' = "calculatePrecisionAtK"
  /\ evalOut' = calculatePrecisionAtK(evalIn.rankedPassages, evalIn.k)
  /\ UNCHANGED <<evalIn, preloadPc, cacheVars, callVars, rrVars>>

EvalRecallAtK ==
  /\ evalFn = "none"
  /\ evalFn' = "calculateRecallAtK"
  /\ evalOut' = calculateRecallAtK(evalIn.rankedPassages, evalIn.k)
  /\ UNCHANGED <<evalIn, preloadPc, cacheVars, callVars, rrVars>>

NextMetrics == EvalMRR \/ EvalNDCG \/ EvalPrecisionAtK \/ EvalRecallAtK

SpecMetrics == InitMetrics /\ [][NextMetrics]_vars

\* ------------------------------------------------------------------------
\* SpecAverage: calculateAverageMetrics applied to every list of up to
\* MaxResults query results, each errored or with a ranked list
\* ------------------------------------------------------------------------
QueryResults ==
  {[error |-> TRUE, rankedPassages |-> <<>>]}
    \cup {[error |-> FALSE, rankedPassages |-> r] :
            r \in SeqsUpTo(BOOLEAN, MaxAvgRanked)}

KValueLists == {<<1>>, <<1, 3>>, <<0, 2, 2>>}

InitAverage ==
  /\ evalFn = "none"
  /\ evalIn \in [queryResults : SeqsUpTo(QueryResults, MaxResults),
                  kValues : KValueLists]
  /\ evalOut = <<>>
  /\ InitCache /\ InitCalls /\ InitRerankIdle /\ InitPreloadIdle

EvalAverageMetrics ==
  /\ evalFn = "none"
  /\ evalFn' = "calculateAverageMetrics"
  /\ evalOut' = calculateAverageMetrics(evalIn.queryResults, evalIn.kValues)
  /\ UNCHANGED <<evalIn, preloadPc, cacheVars, callVars, rrVars>>

NextAverage == EvalAverageMetrics

SpecAverage == InitAverage /\ [][NextAverage]_vars

\* ------------------------------------------------------------------------
\* SpecPreload: the cache warmed up through preload() and initialize()
\* ------------------------------------------------------------------------
NextPreload ==
  \/ \E c \in 1..MaxSharedCalls, i \in Instances : Preload(c, i)
  \/ \E c \in 1..MaxSharedCalls, i \in Instances : Initialize(c, i)
  \/ \E c \in 1..MaxSharedCalls : PreloadReturn(c)
  \/ \E c \in 1..MaxSharedCalls : ModelLoaded(c)
  \/ \E c \in 1..MaxSharedCalls : LoadFailed(c)
  \/ \E c \in 1..MaxSharedCalls : TokenizerLoaded(c)
  \/ \E c \in 1..MaxSharedCalls : Resume(c)
  \/ \E k \in Keys : ClearCache(k)

SpecPreload == Init /\ [][NextPreload]_vars


\* ------------------------------------------------------------------------
\* SpecLive: the cache of Spec with a loader whose every invocation
\* completes (resolves or rejects) and an event loop that runs every
\* continuation of a settled promise
\* ------------------------------------------------------------------------
LoaderCompletes(c) == ModelLoaded(c) \/ LoadFailed(c) \/ TokenizerLoaded(c)

SpecLive ==
  /\ Spec
  /\ \A c \in CallIds : WF_vars(LoaderCompletes(c)) /\ WF_vars(Resume(c))

\* ========================================================================
\* Properties of the cache
\* ========================================================================
Ok == <<"ok", "-", 0>>
StartedLoad(c) == promiseState[c][1] # "none"
Issued(c) == pc[c] = "idle" /\ pc'[c] # "idle"

\* The calls issued while call f was still pending, with f itself
Group(f) == {f} \cup {c \in CallIds : f \in pendingAtIssue[c]}

\* C1: when several initialize() calls for one key are issued before the
\* first one (which started the load) completes and no clearCache hits the
\* key until all of them have completed, the loader was invoked exactly once
\* for them and all of them observe the same outcome.
C1_OneLoadSameOutcome ==
  \A f \in CallIds :
    ( /\ StartedLoad(f)
      /\ Cardinality(Group(f)) >= 2
      /\ \A c \in Group(f) : pc[c] = "done" /\ ~clearSeen[c] )
    => /\ Cardinality({c \in Group(f) : StartedLoad(c)}) = 1
       /\ \A c \in Group(f) : result[c] = result[f]

\* The same statement for behaviours in which no clearCache ever ran while
\* a load was in flight (used to cross-check the bookkeeping of C1)
C1_HoldsWithoutClear ==
  (\A c \in CallIds : ~clearSeen[c]) => C1_OneLoadSameOutcome

\* C2: at most one loader invocation per key is in flight in every
\* reachable state.
C2_AtMostOneLoadInFlight ==
  \A k \in Keys : Cardinality({c \in CallIds : callKey[c] = k /\ Loading(c)}) <= 1

\* C3: an initialize() issued while the key has a cached entry returns
\* successfully at once, starts no load, creates no marker and leaves the
\* cache unchanged.
C3_CacheHitNoLoad ==
  [][\A c \in CallIds :
       (Issued(c) /\ models[callKey'[c]] # None)
       => /\ pc'[c] = "done"
          /\ result'[c] = Ok
          /\ promiseState'[c][1] = "none"
          /\ loaderCalls' = loaderCalls
          /\ cacheVars' = cacheVars]_vars

C3_Witness ==
  \E c \in CallIds :
    /\ pc[c] = "done" /\ result[c] = Ok /\ ~StartedLoad(c) /\ awaited[c] = None
    /\ models[callKey[c]] # None /\ models[callKey[c]] # c

\* C4: when a load fails, the failing step stores nothing and removes the
\* marker of the key; the failed load never appears as a cached model or
\* tokenizer; the initiating caller and every caller that waited on that
\* load observe that failure.
C4_FailureStep ==
  \A c \in CallIds :
    (Loading(c) /\ promiseState'[c][1] = "rejected")
    => /\ models' = models
       /\ tokenizers' = tokenizers
       /\ initializationPromises'[callKey[c]] = None
       /\ result'[c] = <<"error", promiseState'[c][2], c>>

C4_FailureState ==
  \A c \in CallIds :
    promiseState[c][1] = "rejected"
    => /\ \A k \in Keys : models[k] # c /\ tokenizers[k] # c
       /\ \A w \in CallIds :
            (pc[w] = "done" /\ awaited[w] = c)
            => result[w] = <<"error", promiseState[c][2], c>>

C5_Step ==
  /\ \A k \in Keys :
       loaderCalls'[k] # loaderCalls[k]
       => /\ loaderCalls'[k] = loaderCalls[k] + 1
          /\ \E c \in CallIds : Issued(c) /\ callKey'[c] = k /\ pc'[c] = "loadModel"
  /\ \A c \in CallIds :
       (Issued(c) /\ \E p \in CallIds :
                        callKey[p] = callKey'[c] /\ promiseState[p][1] = "rejected")
       => /\ awaited'[c] = None \/ promiseState'[awaited'[c]][1] = "pending"
          /\ (models[callKey'[c]] = None /\ initializationPromises[callKey'[c]] = None)
               => (pc'[c] = "loadModel" /\ awaited'[c] = c)

C6_Step ==
  /\ \A k \in Keys :
       (evicted'[k] /\ ~evicted[k])
       => (models'[k] = None /\ tokenizers'[k] = None
           /\ initializationPromises'[k] = None)
  /\ \A c \in CallIds :
       (Issued(c) /\ evicted[callKey'[c]])
       => (pc'[c] = "loadModel"
           /\ loaderCalls'[callKey'[c]] = loaderCalls[callKey'[c]] + 1)

C6_EvictThenFreshLoad == [][C6_Step]_vars

\* C7: a key has a stored model iff it has a stored tokenizer, and both
\* come from the same load.
C7_ModelIffTokenizer ==
  \A k \in Keys : models[k] = tokenizers[k]

C7_Witness ==
  \E k \in Keys, c \in CallIds :
    /\ models[k] # None /\ tokenizers[k] # None
    /\ pc[c] = "loadTokenizer" /\ models[callKey[c]] = None

\* C8: the cache is shared by the instances: once a load of key k has
\* succeeded every instance configured with k reports isLoaded, such an
\* instance reranks without any loader invocation or cache change, and
\* after a dispose of k every instance configured with k is unloaded.
C8_Step ==
  /\ \A c \in CallIds :
       (pc[c] = "loadTokenizer" /\ promiseState'[c][1] = "fulfilled")
       => \A j \in Instances : instModel(j) = callKey[c] => isLoaded(j)'
  /\ (rrVars' # rrVars) => (loaderCalls' = loaderCalls /\ cacheVars' = cacheVars
                            /\ pc' = pc)
  /\ (rrPc' = "infer" /\ (rrPc # "infer" \/ rrI' # rrI)) => isLoaded(rrInst')
  /\ (rrPc # "infer" /\ rrVars' # rrVars /\ Len(rrDocs') > 0 /\ isLoaded(rrInst'))
       => rrPc' # "notInitialized"
  /\ \A k \in Keys :
       (evicted'[k] /\ ~evicted[k])
       => \A j \in Instances : instModel(j) = k => ~isLoaded(j)'

C8_SharedCache == [][C8_Step]_vars

C8_Witness ==
  /\ rrPc = "done" /\ rrInst = "i2" /\ Len(rrOut) = 1
  /\ loaderCalls["kA"] = 1 /\ isLoaded("i1") /\ isLoaded("i2")


\* ========================================================================
\* Properties of rerank
\* ========================================================================
Min(a, b) == IF a < b THEN a ELSE b

\* Score the backend and the normalization give document j of the call
DocScore(j) ==
  LET k == instModel(rrInst) IN ScoreOf(k, LogitRow(k, TextOf(rrDocs[j])))

\* The item of every document of the call, in input order, computed
\* without batching and before any sort
AllItems ==
  [j \in 1..Len(rrDocs) |-> ItemOf(rrDocs[j], j - 1, DocScore(j))]

\* C9: a rerank call that returns, returns exactly min(topK, |D|) items
\* (topK >= 0, batchSize >= 1).
C9_LengthIsMinTopK ==
  rrPc = "done" => Len(rrOut) = Min(rrTopK, Len(rrDocs))

C9_Witness ==
  /\ rrPc = "done" /\ Len(rrDocs) = 3 /\ rrBatch = 2 /\ rrTopK = 2
  /\ Len(rrOut) = 2 /\ backendCalls = 2

\* C10: the returned scores are non-increasing along the result, and the
\* result is a top-K of the call's items by score: the returned items are
\* items of distinct documents, and no item left out has a higher score
\* than a returned one.
C10_TopKByScore ==
  rrPc = "done" =>
    /\ \A x, y \in 1..Len(rrOut) :
         x < y => rrOut[x]._rerank_score >= rrOut[y]._rerank_score
    /\ \E p \in Permutations(1..Len(rrDocs)) :
         /\ \A x \in 1..Len(rrOut) : rrOut[x] = AllItems[p[x]]
         /\ \A x \in 1..Len(rrOut), y \in (Len(rrOut) + 1)..Len(rrDocs) :
              AllItems[p[y]]._rerank_score <= rrOut[x]._rerank_score

C10_Witness ==
  /\ rrPc = "done" /\ Len(rrDocs) = 3 /\ Len(rrOut) = 2 /\ rrBatch = 1
  /\ rrOut[1]._rerank_score > rrOut[2]._rerank_score
  /\ rrOut[1]._rerank_corpus_id = 2
  /\ \E j \in 1..3 : AllItems[j]._rerank_score < rrOut[2]._rerank_score

\* The item carries the content of the document: a string under the key
\* text, a record with every field and its value
Carries(item, doc) ==
  IF doc.kind = "string"
    THEN "text" \in DOMAIN item /\ item.text = doc.value
    ELSE \A f \in DOMAIN doc.fields :
           f \in DOMAIN item /\ item[f] = doc.fields[f]

\* C11: the _rerank_corpus_id values of the returned items are pairwise
\* distinct members of 0..|D|-1, and the item with corpus id i carries the
\* content of D[i], for every document list of strings and records.
C11_CorpusIdsIdentifyDocuments ==
  (rrPc = "done" /\ rrTopK >= 0 /\ rrBatch >= 1) =>
    /\ \A x \in 1..Len(rrOut) :
         rrOut[x]._rerank_corpus_id \in 0..(Len(rrDocs) - 1)
    /\ \A x, y \in 1..Len(rrOut) :
         x # y => rrOut[x]._rerank_corpus_id # rrOut[y]._rerank_corpus_id
    /\ \A x \in 1..Len(rrOut) :
         Carries(rrOut[x], rrDocs[rrOut[x]._rerank_corpus_id + 1])

\* The document is a record that has a field named like a result key
HasResultKey(doc) ==
  /\ doc.kind = "record"
  /\ DOMAIN doc.fields \cap {"_rerank_corpus_id", "_rerank_score"} # {}

\* C12: every returned item stands for one document of the call, each
\* document for at most one item, and the item carries every field of a
\* record document with its original value, or the string of a string
\* document under the key text; lists of both kinds included.
C12_OriginalFieldsCarried ==
  rrPc = "done" =>
    \E p \in Permutations(1..Len(rrDocs)) :
      \A x \in 1..Len(rrOut) :
        /\ Carries(rrOut[x], rrDocs[p[x]])
        /\ ~HasResultKey(rrDocs[p[x]]) => rrOut[x]._rerank_corpus_id = p[x] - 1

C12_Witness ==
  /\ rrPc = "done"
  /\ rrDocs = <<StringDoc("t1"), RecordDoc([text |-> "t3", id |-> "a"])>>
  /\ Len(rrOut) = 2
  /\ rrOut[1].text = "t3" /\ rrOut[1].id = "a"
  /\ rrOut[2].text = "t1"

\* The (score, corpus id) pairs of a sequence of items
PairsOf(items) ==
  {<<items[j]._rerank_score, items[j]._rerank_corpus_id>> : j \in 1..Len(items)}

\* C13: with a deterministic backend, a call that ran with batch size
\* rrBatch produced the same set of (score, corpus id) pairs and returns the
\* same top-K sequence as the call with any other batch size b >= 1.
C13_BatchSizeInvariance ==
  rrPc = "done" =>
    \A b \in 1..MaxBatch :
      /\ PairsOf(allResults) =
           PairsOf(CollectBatches(instModel(rrInst), rrDocs, 0, b))
      /\ rrOut = RerankAll(instModel(rrInst), rrDocs, rrTopK, b)

C13_Witness ==
  /\ rrPc = "done" /\ Len(rrDocs) = 3 /\ rrBatch = 1 /\ backendCalls = 3
  /\ Len(rrOut) = 3
  /\ rrOut = RerankAll(instModel(rrInst), rrDocs, rrTopK, 3)
  /\ rrOut[1]._rerank_corpus_id = 2

\* The step is the start of a rerank call (the call before it, if any, is over)
IsRerankStart == rrPc \notin {"infer", "skip"} /\ rrVars' # rrVars

\* C14: a rerank call with an empty or missing document list returns the
\* empty sequence at once, makes no backend call and leaves the cache and
\* the loads alone, whether the key is cached or not.
C14_Step ==
  (IsRerankStart /\ Len(rrDocs') = 0) =>
    /\ rrPc' = "done"
    /\ rrOut' = <<>>
    /\ backendCalls' = 0
    /\ UNCHANGED <<cacheVars, callVars>>

C14_EmptyListReturnsEmpty == [][C14_Step]_vars

C14_Witness ==
  /\ rrPc = "done" /\ rrDocs = <<>> /\ rrOut = <<>> /\ backendCalls = 0
  /\ ~isLoaded(rrInst)
  /\ loaderCalls[instModel(rrInst)] = 0

\* C15: documents of equal score are returned in their input order: the
\* result is the prefix of the one arrangement of the call's items that is
\* descending by score and, among equal scores, ascending by input
\* position, so the rule also decides which of them falls beyond the cut.
C15_TiesKeepInputOrder ==
  rrPc = "done" =>
    \E p \in Permutations(1..Len(rrDocs)) :
      /\ \A x \in 1..Len(rrOut) : rrOut[x] = AllItems[p[x]]
      /\ \A x, y \in 1..Len(rrDocs) :
           x < y =>
             \/ AllItems[p[x]]._rerank_score > AllItems[p[y]]._rerank_score
             \/ /\ AllItems[p[x]]._rerank_score = AllItems[p[y]]._rerank_score
                /\ p[x] < p[y]

C15_Witness ==
  /\ rrPc = "done" /\ Len(rrDocs) = 3 /\ rrTopK = 2 /\ Len(rrOut) = 2
  /\ \A j \in 1..3 : AllItems[j]._rerank_score = AllItems[1]._rerank_score
  /\ rrOut[1]._rerank_corpus_id = 0
  /\ rrOut[2]._rerank_corpus_id = 1

\* C16: when the tokenizer or the model fails on a batch, the call is
\* rejected with that failure: it returns nothing, the items of the
\* batches before it are not delivered, and no later batch is sent.
C16_State ==
  rrPc = "inferenceError" =>
    /\ rrOut = <<>>
    /\ backendCalls <= (rrI \div rrBatch) + 1

C16_Step ==
  /\ (rrPc \in {"infer", "skip"} /\ rrPc' = "inferenceError")
       => backendCalls' = backendCalls
  /\ rrPc = "inferenceError" => UNCHANGED rrVars

C16_BackendFailureRejects == [][C16_Step]_vars /\ []C16_State

C16_Witness ==
  /\ rrPc = "inferenceError" /\ rrOut = <<>>
  /\ Len(allResults) > 0
  /\ rrI + rrBatch < Len(rrDocs)
  /\ backendCalls = 2

\* C17: getScores, and so rerank on a non-empty list, for a key without a
\* cached model and tokenizer fails as not initialized, calls neither the
\* tokenizer nor the model and starts no load (the key was never
\* initialized, its load failed, or it was evicted).
C17_Step ==
  /\ (IsRerankStart /\ Len(rrDocs') > 0 /\ ~isLoaded(rrInst'))
       => rrPc' = "notInitialized"
  /\ (rrPc' = "notInitialized" /\ rrVars' # rrVars)
       => /\ backendCalls' = IF IsRerankStart THEN 0 ELSE backendCalls
          /\ rrOut' = <<>>
          /\ UNCHANGED <<cacheVars, callVars>>

ValidOptions == rrTopK >= 0 /\ rrBatch >= 1

\* C18: a rerank call with a negative topK or with a batchSize of zero or
\* less is rejected as a configuration error: it sends nothing to the
\* backend, does not enter the loop and returns no result.
C18_InvalidOptionsRejected ==
  (~ValidOptions /\ Len(rrDocs) > 0) => rrPc \notin {"infer", "skip", "done"}

\* The document has no text to extract: a record without a text field
NoText(doc) == doc.kind = "record" /\ "text" \notin DOMAIN doc.fields

\* C19: a rerank call whose list holds a document without extractable text
\* fails as a malformed document and returns no result: in particular it
\* never returns items.
C19_MalformedDocumentRejected ==
  (ValidOptions /\ \E j \in 1..Len(rrDocs) : NoText(rrDocs[j]))
    => ~(rrPc = "done" /\ Len(rrOut) > 0)

MatchingLabels(id2label) ==
  {j \in 1..Len(id2label) : LabelMatches(id2label[j])}

\* C21: for multi-column logits the selected column is an index whose label
\* contains "relevant" or "positive" (the lowest one), and index 1 when no
\* label matches or there is no label map; the score is the softmax
\* probability at that column.
C21_SelectedColumn ==
  evalFn = "getScores" =>
    LET hits == MatchingLabels(evalIn.id2label)
        idx == evalOut.positiveClassIndex
    IN /\ hits = {} => idx = 1
       /\ hits # {} => (idx + 1 \in hits /\ \A h \in hits : idx + 1 <= h)
       /\ idx < Len(evalIn.row) => evalOut.score = softmax(evalIn.row)[idx + 1]

C21_Witness ==
  /\ evalFn = "getScores"
  /\ evalIn.id2label = <<"positive", "negative">>
  /\ evalIn.row = <<1, 0 - 1>>
  /\ evalOut.positiveClassIndex = 0
  /\ evalOut.score = 8807

\* Label names that name the positive class, and names that negate it
PositiveNames == {"RELEVANT", "positive"}
NegationNames == {"NOT_RELEVANT", "irrelevant", "negative"}

\* C22: for every binary label map that names one class as relevant or
\* positive and the other as its negation, the selected index is the index
\* of the positive class.
C22_PositiveClassDetected ==
  (/\ evalFn = "getScores"
   /\ Len(evalIn.id2label) = 2
   /\ \E j \in 1..2 : /\ evalIn.id2label[j] \in PositiveNames
                      /\ evalIn.id2label[3 - j] \in NegationNames)
    => evalIn.id2label[evalOut.positiveClassIndex + 1] \in PositiveNames

\* Positions of the relevant passages among the first min(k, n)
RelevantWithin(ranked, k) == {r \in 1..Min(k, Len(ranked)) : ranked[r]}

\* C23: calculateMRR is 1/r for the position r of the first relevant
\* passage among the first min(k, n), and 0 when there is none (n = 0 and
\* k = 0 included).
C23_MRR ==
  evalFn = "calculateMRR" =>
    LET R == RelevantWithin(evalIn.rankedPassages, evalIn.k)
    IN evalOut = IF R = {} THEN 0
                 ELSE Scale \div (CHOOSE r \in R : \A q \in R : r <= q)

C23_Witness ==
  /\ evalFn = "calculateMRR"
  /\ evalIn.rankedPassages = <<FALSE, FALSE, TRUE, TRUE>>
  /\ evalIn.k = 3
  /\ evalOut = 3333

\* C24: calculatePrecisionAtK is the number of relevant passages among the
\* first min(k, n) divided by min(k, n), 0 when n = 0 or k = 0, and never
\* the result of a division by zero.
C24_PrecisionAtK ==
  evalFn = "calculatePrecisionAtK" =>
    LET n == Len(evalIn.rankedPassages)
        hits == Cardinality(RelevantWithin(evalIn.rankedPassages, evalIn.k))
    IN /\ evalOut # Undefined
       /\ evalOut = IF n = 0 \/ evalIn.k = 0 THEN 0
                    ELSE (hits * Scale) \div Min(evalIn.k, n)

C24_Witness ==
  /\ evalFn = "calculatePrecisionAtK"
  /\ evalIn.rankedPassages = <<TRUE, FALSE>>
  /\ evalIn.k = 5
  /\ evalOut = 5000

\* C25: calculateRecallAtK is the number of relevant passages among the
\* first min(k, n) divided by the number of relevant passages of the whole
\* list, 0 when the list has none, and never the result of a division by
\* zero.
C25_RecallAtK ==
  evalFn = "calculateRecallAtK" =>
    LET total == Cardinality(RelevantWithin(evalIn.rankedPassages,
                                            Len(evalIn.rankedPassages)))
        hits == Cardinality(RelevantWithin(evalIn.rankedPassages, evalIn.k))
    IN /\ evalOut # Undefined
       /\ evalOut = IF total = 0 THEN 0 ELSE (hits * Scale) \div total

C25_Witness ==
  /\ evalFn = "calculateRecallAtK"
  /\ evalIn.rankedPassages = <<TRUE, FALSE, TRUE>>
  /\ evalIn.k = 2
  /\ evalOut = 5000

\* The list with its relevant passages placed first
Ideal(ranked) ==
  [j \in 1..Len(ranked) |->
     j <= Cardinality(RelevantWithin(ranked, Len(ranked)))]

\* C26: calculateNDCG is DCG@k / IDCG@k, where IDCG@k is the DCG of the
\* list with its relevant passages placed first; it is 0, and no division
\* is made, when IDCG@k = 0, that is when the list has no relevant passage
\* or k = 0; it never exceeds 1.
C26_NDCG ==
  evalFn = "calculateNDCG" =>
    LET ranked == evalIn.rankedPassages IN
    /\ evalOut.idcg = calculateDCG(Ideal(ranked), evalIn.k)
    /\ evalOut.idcg = 0 <=> (RelevantWithin(ranked, Len(ranked)) = {} \/ evalIn.k = 0)
    /\ evalOut.ndcg = IF evalOut.idcg = 0 THEN 0
                      ELSE (evalOut.dcg * Scale) \div evalOut.idcg
    /\ evalOut.ndcg # Undefined
    /\ evalOut.ndcg <= Scale

C26_Witness ==
  /\ evalFn = "calculateNDCG"
  /\ evalIn.rankedPassages = <<FALSE, TRUE, TRUE>>
  /\ evalIn.k = 2
  /\ evalOut.dcg = 10000 /\ evalOut.idcg = 20000 /\ evalOut.ndcg = 5000

\* Positions of the query results without an error
ValidIndexes(queryResults) ==
  {j \in 1..Len(queryResults) : ~queryResults[j].error}

\* C27: calculateAverageMetrics reports the explicit no-valid-results
\* condition whenever no query result is valid, the empty list included.
C27_NoValidResultsReported ==
  (evalFn = "calculateAverageMetrics" /\ ValidIndexes(evalIn.queryResults) = {})
    => "error" \in DOMAIN evalOut

\* The value of the metric of a key for one ranked list
MetricOf(key, ranked) ==
  CASE key[1] = "MRR" -> calculateMRR(ranked, key[2])
    [] key[1] = "NDCG" -> calculateNDCG(ranked, key[2])
    [] key[1] = "Precision" -> calculatePrecisionAtK(ranked, key[2])
    [] key[1] = "Recall" -> calculateRecallAtK(ranked, key[2])

\* Sum of the metric of a key over the query results at the positions J
RECURSIVE SumOver(_, _, _)
SumOver(J, key, queryResults) ==
  IF J = {} THEN 0
  ELSE LET j == CHOOSE x \in J : TRUE
       IN MetricOf(key, queryResults[j].rankedPassages)
            + SumOver(J \ {j}, key, queryResults)

\* C28: with at least one valid query result, calculateAverageMetrics
\* returns for each metric and each k the arithmetic mean over exactly the
\* results without an error, with validQueries the number of results
\* averaged and totalQueries = validQueries + errorQueries.
C28_AverageOverValid ==
  (evalFn = "calculateAverageMetrics" /\ ValidIndexes(evalIn.queryResults) # {})
    => LET J == ValidIndexes(evalIn.queryResults) IN
       /\ evalOut.validQueries = Cardinality(J)
       /\ evalOut.totalQueries = Len(evalIn.queryResults)
       /\ evalOut.totalQueries = evalOut.validQueries + evalOut.errorQueries
       /\ DOMAIN evalOut.averages =
            {<<m, evalIn.kValues[x]>> : m \in MetricNames,
                                        x \in 1..Len(evalIn.kValues)}
       /\ \A key \in DOMAIN evalOut.averages :
            evalOut.averages[key] =
              SumOver(J, key, evalIn.queryResults) \div Cardinality(J)

C28_Witness ==
  /\ evalFn = "calculateAverageMetrics"
  /\ evalIn.queryResults =
       << [error |-> TRUE, rankedPassages |-> <<>>],
          [error |-> FALSE, rankedPassages |-> <<TRUE>>],
          [error |-> FALSE, rankedPassages |-> <<FALSE, TRUE>>] >>
  /\ evalIn.kValues = <<1, 3>>
  /\ evalOut.totalQueries = 3 /\ evalOut.validQueries = 2
  /\ evalOut.errorQueries = 1
  /\ evalOut.averages[<<"MRR", 3>>] = 7500
  /\ evalOut.averages[<<"MRR", 1>>] = 5000

\* C29: preload() gives its caller the outcome of initialize(): it
\* resolves only if the initialize() call it awaits succeeded, and a load
\* failure is surfaced.
C29_PreloadIsInitialize ==
  \A c \in CallIds : preloadPc[c] = "resolved" => result[c] = Ok

\* C30: a rerank call has no side effect on the cache or on its input:
\* every step of it leaves the cached handles, the in-flight markers and
\* the initialize() calls as they are, and the document list the caller
\* passed is the same list, in order, length and content, until the call
\* is over.
C30_Step ==
  /\ rrVars' # rrVars => UNCHANGED <<cacheVars, callVars>>
  /\ rrPc \in {"infer", "skip"} => rrDocs' = rrDocs

C30_RerankFrame == [][C30_Step]_vars

C30_Witness ==
  /\ rrPc = "done" /\ Len(rrOut) > 0
  /\ rrDocs = <<StringDoc("t1"), StringDoc("t2")>>
  /\ isLoaded(rrInst)
  /\ \E k \in Keys : initializationPromises[k] # None

\* ========================================================================
\* Properties across keys, batches and evictions
\* ========================================================================
\* The cached entry and the in-flight marker of a key
EntryOf(k) == <<models[k], tokenizers[k], initializationPromises[k]>>

\* C31: keys are independent: the cached entry and the in-flight marker of
\* a key change only in a step of an initialize() call of that key or in a
\* clearCache / dispose that evicts that key, so an operation on one key
\* leaves every other key as it is; and a call that waits, waits on a load
\* of its own key.
C31_Step ==
  /\ \A k \in Keys :
       EntryOf(k)' # EntryOf(k)
       => \/ \E c \in CallIds : pc'[c] # pc[c] /\ callKey'[c] = k
          \/ /\ pc' = pc
             /\ evicted'[k]
             /\ EntryOf(k)' = <<None, None, None>>
  /\ \A c \in CallIds :
       pc'[c] = "awaitOther" => callKey'[awaited'[c]] = callKey'[c]

C31_KeysIndependent == [][C31_Step]_vars

C31_Witness ==
  /\ models["kB"] # None /\ tokenizers["kB"] # None
  /\ evicted["kA"] /\ models["kA"] = None
  /\ \E c, d \in CallIds :
       /\ callKey[c] = "kA" /\ result[c][1] = "error"
       /\ callKey[d] = "kB" /\ pc[d] = "awaitOther"

\* The normalization a key stands for, read from the metadata of its model:
\* sigmoid for one output column, else softmax at the positive class index
StrategyOfKey(k) ==
  IF Columns(k) = 1 THEN <<"sigmoid", 0>>
  ELSE <<"softmax", PositiveClassIndex(k)>>

\* A logits row normalized under a strategy
Normalized(s, row) ==
  IF s[1] = "sigmoid" THEN sigmoid(row[1])
  ELSE IF s[2] < Len(row) THEN softmax(row)[s[2] + 1]
  ELSE Undefined

\* C32: every item pushed by any batch of any rerank call of a key carries
\* the score given by the one normalization strategy of that key (sigmoid,
\* or softmax at one fixed class index), so no two batches scored under a
\* key are normalized differently.
C32_OneStrategyPerKey ==
  \A x \in 1..Len(allResults) :
    allResults[x]._rerank_score =
      Normalized(StrategyOfKey(instModel(rrInst)),
                 LogitRow(instModel(rrInst), allResults[x].text))

C32_Witness ==
  /\ rrPc = "done" /\ rrInst = "i3" /\ backendCalls = 2
  /\ Len(rrDocs) = 3 /\ rrBatch = 2 /\ Len(rrOut) = 3
  /\ StrategyOfKey("kB") = <<"softmax", 1>>
  /\ \A x \in 1..3 :
       rrOut[x]._rerank_score # sigmoid(Logit(rrOut[x].text))

\* C33: for batchSize >= 1 the chunk being scored is the contiguous run of
\* at most batchSize documents that starts at a multiple of batchSize (only
\* the last chunk is shorter), the chunks before it have covered exactly
\* the documents before it, each once, and the item of every covered
\* document carries its input index and the score of that document; a call
\* that returns has covered every document exactly once.
C33_ContiguousChunks ==
  LET n == Len(rrDocs)
      chunk == Chunk(rrDocs, rrI, rrBatch)
  IN /\ rrPc = "infer" =>
          /\ rrI % rrBatch = 0 /\ rrI < n
          /\ chunk = SubSeq(rrDocs, rrI + 1, Min(rrI + rrBatch, n))
          /\ Len(chunk) >= 1 /\ Len(chunk) <= rrBatch
          /\ Len(chunk) < rrBatch => rrI + Len(chunk) = n
          /\ Len(allResults) = rrI
          /\ \A x \in 1..rrI : allResults[x] = AllItems[x]
     /\ rrPc = "done" =>
          /\ Len(allResults) = n
          /\ \E p \in Permutations(1..n) :
               \A x \in 1..n : allResults[x] = AllItems[p[x]]

C33_Witness ==
  /\ rrPc = "infer" /\ Len(rrDocs) = 3 /\ rrBatch = 2 /\ rrI = 2
  /\ Len(Chunk(rrDocs, rrI, rrBatch)) = 1
  /\ Len(allResults) = 2
  /\ allResults[2]._rerank_corpus_id = 1
  /\ allResults[1]._rerank_score # allResults[2]._rerank_score

\* Math.ceil(n / b) for b >= 1
Ceil(n, b) == (n + b - 1) \div b

RerankOver == rrPc \in {"done", "notInitialized", "inferenceError"}

\* C34: for a non-empty list and batchSize >= 1, inference calls are sent
\* one at a time in ascending chunk order: the call in flight is the one of
\* chunk rrI / batchSize, it was sent after the items of every chunk before
\* it were pushed, every answer of the backend either ends the rerank call
\* or moves it to the next chunk, a call never makes more than
\* ceil(n / batchSize) inference calls, and a call that returns has made
\* exactly that many.
C34_Step ==
  /\ backendCalls' # backendCalls =>
       /\ backendCalls' = (IF rrPc = "infer" THEN backendCalls ELSE 0) + 1
       /\ rrPc' = "infer"
       /\ rrI' = (backendCalls' - 1) * rrBatch'
       /\ Len(allResults') = rrI'
  /\ (rrPc = "infer" /\ rrVars' # rrVars) =>
       \/ RerankOver'
       \/ rrPc' = "infer" /\ rrI' = rrI + rrBatch /\ backendCalls' = backendCalls + 1

C34_State ==
  /\ rrPc = "infer" => backendCalls = (rrI \div rrBatch) + 1
  /\ backendCalls <= Ceil(Len(rrDocs), rrBatch)
  /\ (rrPc = "done" /\ Len(rrDocs) > 0)
       => backendCalls = Ceil(Len(rrDocs), rrBatch)

C34_OneCallPerChunk == [][C34_Step]_vars /\ []C34_State

C34_Witness ==
  /\ rrPc = "done" /\ Len(rrDocs) = 3 /\ rrBatch = 2 /\ backendCalls = 2
  /\ rrTopK = 4 /\ Len(rrOut) = 3

\* C35: with a loader whose invocations all complete, every initialize()
\* call that was issued returns, under every interleaving with other
\* initialize() calls and with clearCache; a call that waited on an
\* in-flight load is released once that load has completed, and what it
\* returns is the outcome of that load.
C35_WaiterResult ==
  \A w \in CallIds :
    (pc[w] = "done" /\ awaited[w] # None /\ awaited[w] # w)
    => /\ Settled(awaited[w])
       /\ result[w] = OutcomeOf(awaited[w])

C35_EveryInitializeReturns ==
  /\ \A c \in CallIds : Pending(c) ~> pc[c] = "done"
  /\ \A w \in CallIds :
       (pc[w] = "awaitOther" /\ Settled(awaited[w])) ~> pc[w] = "done"
  /\ []C35_WaiterResult

C35_Witness ==
  \E w \in CallIds :
    /\ pc[w] = "done" /\ awaited[w] # None /\ awaited[w] # w
    /\ clearSeen[w]
    /\ result[w][1] = "error"
    /\ models[callKey[w]] # None

\* C36: after an eviction of key k the key stays out of getCachedModels()
\* and isLoaded() stays false for it until an initialize() of k issued after
\* the eviction completes: no entry while no initialize() was issued since
\* the eviction, and the entry of a key never comes from a load that was in
\* flight when the key was evicted.
C36_NoStaleRepopulation ==
  \A k \in Keys :
    /\ evicted[k] =>
         (k \notin getCachedModels
          /\ \A i \in Instances : instModel(i) = k => ~isLoaded(i))
    /\ models[k] # None => ~clearSeen[models[k]]

\* C37: a running load of key k whose key was not evicted since it started
\* holds the in-flight marker of k (no completion of another load of k
\* removes it), and every marker in the registry refers to a load that is
\* still running.
C37_MarkerOfRunningLoad ==
  /\ \A c \in CallIds :
       (Loading(c) /\ ~clearSeen[c]) => initializationPromises[callKey[c]] = c
  /\ \A k \in Keys :
       initializationPromises[k] # None
       => (Loading(initializationPromises[k])
           /\ callKey[initializationPromises[k]] = k)

\* C38: when the key of a rerank call is found evicted as a batch of the
\* call returns, the call completes with the full result if that was the
\* last batch and is rejected as not initialized, without a further backend
\* call, if a batch remains; whatever happens to the cache during a call,
\* the call returns the result built from all batches or returns nothing.
C38_Step ==
  (rrPc = "infer" /\ ~isLoaded(rrInst) /\ rrVars' # rrVars
     /\ rrPc' # "inferenceError")
  => IF rrI + rrBatch < Len(rrDocs)
       THEN rrPc' = "notInitialized" /\ rrOut' = <<>>
            /\ backendCalls' = backendCalls
       ELSE rrPc' = "done"
            /\ rrOut' = RerankAll(instModel(rrInst), rrDocs, rrTopK, rrBatch)

C38_State ==
  /\ rrPc = "done" =>
       rrOut = RerankAll(instModel(rrInst), rrDocs, rrTopK, rrBatch)
  /\ rrPc # "done" => rrOut = <<>>

C38_EvictionNeverPartial == [][C38_Step]_vars /\ []C38_State

C38_Witness ==
  /\ rrPc = "notInitialized" /\ ~isLoaded(rrInst)
  /\ Len(rrDocs) = 3 /\ rrBatch = 1 /\ rrTopK = 2
  /\ rrI = 2 /\ Len(allResults) = 2 /\ backendCalls = 2
  /\ rrOut = <<>>

\* C39: whatever fields the input records carry, every returned item
\* stands for one document of the call (each document for at most one
\* item) with _rerank_corpus_id the input index of that document and
\* _rerank_score the normalized score the backend gave it in this call,
\* and the items are in descending order of those backend scores.
C39_ResultKeysFromThisCall ==
  (/\ rrPc = "done" /\ ValidOptions
   /\ \A j \in 1..Len(rrDocs) : ~NoText(rrDocs[j]))
  => \E p \in Permutations(1..Len(rrDocs)) :
       /\ \A x \in 1..Len(rrOut) :
            /\ rrOut[x]._rerank_corpus_id = p[x] - 1
            /\ rrOut[x]._rerank_score = DocScore(p[x])
       /\ \A x, y \in 1..Len(rrOut) :
            x < y => DocScore(p[x]) >= DocScore(p[y])

\* A metric value within [0, 1]
UnitRange == 0..Scale

\* C40: for every ranked list and every k >= 0, MRR@k, Precision@k and
\* Recall@k are within [0, 1], and MRR@k and Recall@k are not below their
\* values at any smaller cutoff.
C40_BoundedAndMonotone ==
  LET ranked == evalIn.rankedPassages IN
  /\ evalFn \in {"calculateMRR", "calculatePrecisionAtK", "calculateRecallAtK"}
       => evalOut \in UnitRange
  /\ evalFn = "calculateMRR"
       => \A j \in 0..evalIn.k : calculateMRR(ranked, j) <= evalOut
  /\ evalFn = "calculateRecallAtK"
       => \A j \in 0..evalIn.k : calculateRecallAtK(ranked, j) <= evalOut

C40_Witness ==
  /\ evalFn = "calculateRecallAtK"
  /\ evalIn.rankedPassages = <<FALSE, TRUE, FALSE, TRUE>>
  /\ evalIn.k = 5
  /\ evalOut = Scale
  /\ calculateRecallAtK(evalIn.rankedPassages, 3) = 5000
  /\ calculateMRR(evalIn.rankedPassages, 1) = 0
  /\ calculateMRR(evalIn.rankedPassages, 5) = 5000


====
